---- MODULE Spec2Model ----
(***************************************************************************)
(* Model of package sqluser (src/sqluser/sqluser.go): the account,         *)
(* password, token and user-status data mappers over a relational store.   *)
(*                                                                         *)
(* A table is a bag (multiset) of rows: the source declares no schema, so  *)
(* no unique index is assumed and an INSERT always adds a row.  The time   *)
(* columns (created_time, updated_time) are written but never read by any  *)
(* decision of the code and are left out of the rows.                      *)
(*                                                                         *)
(* Every handler runs its writes in one transaction with a deferred        *)
(* rollback; in the sequential specifications a handler is one atomic      *)
(* step whose writes are applied only when it reaches tx.Commit().         *)
(*                                                                         *)
(* In the concurrent specifications a step is one statement of a handler.  *)
(* The source opens its transactions with DB.Begin(), which asks for no    *)
(* isolation level: a statement reads the committed rows, the rows written *)
(* by a transaction are seen by the others once it has committed, and any  *)
(* statement may fail (which is also how a store with a stricter isolation *)
(* level or a lock conflict answers).                                      *)
(*                                                                         *)
(* The last part models the OAuth callback of package wechatmpauth         *)
(* (src/unnamed/part_000): the State kept in the session of one browser,   *)
(* ExternalLogin and authRequestWithAgent statement by statement.          *)
(***************************************************************************)
EXTENDS Integers, Sequences, FiniteSets, Bags, TLC

VARIABLES
    account,        \* account table: bag of [uid, keyword, account]
    user,           \* user table: bag of [uid, status]
    password,       \* password table: bag of [uid, hash_method, salt, password]
    token,          \* token table: bag of [uid, token]
    Flag,           \* User.Flag
    HashMethod,     \* User.HashMethod
    PasswordKey,    \* User.PasswordKey
    HashFuncMap,    \* names registered in the package-level HashFuncMap
    observed,       \* the operations whose calls last and prev record
    last,           \* the latest call: operation, arguments and results
    prev,           \* the call before it
    running,        \* the calls in progress of the concurrent callers
    session,        \* wechatmpauth: the State stored in the session of the browser
    request,        \* wechatmpauth: the callback request being handled
    served          \* wechatmpauth: the callbacks answered since the latest login

vars == <<account, user, password, token, Flag, HashMethod, PasswordKey,
          HashFuncMap, observed, last, prev, running, session, request, served>>

tables == <<account, user, password, token>>
config == <<Flag, HashMethod, PasswordKey, HashFuncMap>>
web == <<session, request, served>>

----------------------------------------------------------------------------
(* Program constants *)

FlagEmpty == 0
FlagWithAccount == 1
FlagWithPassword == 2
FlagWithToken == 4
FlagWithUser == 8

UserStatusNormal == 0
UserStatusBanned == 1

RandomBytesLength == 32

DefaultHashMethod == "sha256"

----------------------------------------------------------------------------
(* Bounds and input sets *)

\* cap on the number of rows of the user table
MaxUserRows == 2
\* clock readings time.Now().UnixNano() can return are 0..MaxClock
MaxClock == 1
\* the four tables together hold at most MaxRows rows where every mutating
\* operation is explored at once
MaxRows == 4

\* uids of account calls and of the uid generator
UIDs == {"u1", "u2"}
\* uids of password, token and user-status calls
UpsertUIDs == {"", "u1"}
Keywords == {"", "email"}
AccountNames == {"a@example.com"}
Passwords == {"p", "q"}
\* values of the random bytes drawn by rand.Read
ByteValues == {10, 255}
PasswordKeys == {"", "k"}
Flags == {FlagWithAccount + FlagWithPassword + FlagWithToken,
          FlagWithAccount + FlagWithPassword + FlagWithToken + FlagWithUser}

\* results
Nil == "nil"
ErrNoRows == "sql.ErrNoRows"
ErrDB == "storage error"
ErrGen == "generator error"
ErrAccountBindExists == "user.ErrAccountBindExists"
ErrAccountRegisterExists == "member.ErrAccountRegisterExists"
ErrUserNotFound == "member.ErrUserNotFound"
ErrHashMethodNotFound == "ErrHashMethodNotFound"
\* errors that come from the environment and not from the handler's logic
EnvErrors == {ErrDB, ErrGen}

----------------------------------------------------------------------------
(* Bit test of the flag mask *)

RECURSIVE BitAnd(_, _)
BitAnd(a, b) ==
    IF a = 0 \/ b = 0 THEN 0
    ELSE (IF a % 2 = 1 /\ b % 2 = 1 THEN 1 ELSE 0) + 2 * BitAnd(a \div 2, b \div 2)

\* mutant: the mask compared for equality instead of tested bitwise
HasFlagEqual(flag) == Flag = flag

HasFlag(flag) == BitAnd(Flag, flag) # 0

----------------------------------------------------------------------------
(* SQL statements over a bag of rows *)

\* rows of tbl that satisfy the WHERE condition; a condition is a function
\* from the rows of the table to BOOLEAN
Where(tbl, cond) == {r \in BagToSet(tbl) : cond[r]}

\* number of rows of tbl that satisfy the condition
RECURSIVE SumCopies(_, _)
SumCopies(tbl, S) ==
    IF S = {} THEN 0
    ELSE LET r == CHOOSE x \in S : TRUE
         IN CopiesIn(r, tbl) + SumCopies(tbl, S \ {r})

CountWhere(tbl, cond) == SumCopies(tbl, Where(tbl, cond))

\* QueryRow(...).Scan: sql.ErrNoRows, or one of the matching rows (no ORDER BY)
QueryRow(tbl, cond) ==
    IF Where(tbl, cond) = {} THEN {[err |-> ErrNoRows]}
    ELSE {[err |-> Nil, row |-> r] : r \in Where(tbl, cond)}

InsertInto(tbl, row) == tbl (+) SetToBag({row})

DeleteWhere(tbl, cond) ==
    LET keep == {r \in BagToSet(tbl) : ~cond[r]}
    IN [r \in keep |-> tbl[r]]

\* UPDATE tbl SET ... WHERE cond: set[r] is the row r after the assignment
UpdateWhere(tbl, cond, set) ==
    BagOfAll(LAMBDA r : IF cond[r] THEN set[r] ELSE r, tbl)

\* rows a statement sequence added to a table (0 when it removed rows)
Added(new, old) ==
    IF BagCardinality(new) > BagCardinality(old)
    THEN BagCardinality(new) - BagCardinality(old) ELSE 0

----------------------------------------------------------------------------
(* The record of a call: operation, arguments (arg is the password, the    *)
(* banned flag, or the value the generator returned), returned error and   *)
(* value, the number of rows its subject had before the call (had), and    *)
(* the numbers of account rows (da) and user rows (du) the call added.     *)

Call(op, uid, keyword, acc, arg, err, out, had, da, du) ==
    [op |-> op, uid |-> uid, keyword |-> keyword, account |-> acc, arg |-> arg,
     err |-> err, out |-> out, had |-> had, da |-> da, du |-> du]

NoCall == Call("none", "", "", "", "", Nil, "", 0, 0, 0)

\* the concurrent callers, and a call in progress: the handler, the statement
\* it is about to run (pc), its arguments, the row its transaction writes,
\* the error and the value it returned
Procs == {1, 2}

Proc(op, pc, uid, keyword, acc, row, err, out) ==
    [op |-> op, pc |-> pc, uid |-> uid, keyword |-> keyword, account |-> acc,
     row |-> row, err |-> err, out |-> out]

NoRow == [uid |-> ""]

IdleProc == Proc("none", "idle", "", "", "", NoRow, Nil, "")

\* outcomes of a string generator (UIDGenerater, TokenGenerater, SaltGenerater)
Generated(values) ==
    {[val |-> v, err |-> Nil] : v \in values} \cup {[val |-> "", err |-> ErrGen]}

----------------------------------------------------------------------------
(* AccountDataMapper *)

AccountRow(uid, keyword, acc) == [uid |-> uid, keyword |-> keyword, account |-> acc]
UserRow(uid, status) == [uid |-> uid, status |-> status]

\* mutant: the existence check finds nothing
SelectAccountNoRows(keyword, acc) == {[err |-> ErrNoRows]}

\* the SELECT ... WHERE keyword = ? AND account = ? of Bind, Insert, FindOrInsert, Find
SelectAccount(keyword, acc) ==
    QueryRow(account, [r \in BagToSet(account) |-> r.keyword = keyword /\ r.account = acc])

\* mutant: the delete does not ask for the uid
UnbindAnyOwner(uid, keyword, acc, fail) ==
    IF fail # "none" THEN [account |-> account, err |-> ErrDB]
    ELSE [account |-> DeleteWhere(account,
                        [r \in BagToSet(account) |->
                            r.keyword = keyword /\ r.account = acc]),
          err |-> Nil]

UnbindFails == {"none", "delete"}
Unbind(uid, keyword, acc, fail) ==
    IF fail # "none" THEN [account |-> account, err |-> ErrDB]
    ELSE [account |-> DeleteWhere(account,
                        [r \in BagToSet(account) |->
                            r.uid = uid /\ r.keyword = keyword /\ r.account = acc]),
          err |-> Nil]

\* mutant: the conflict is reported with the error of Insert
BindWrongError(uid, keyword, acc, fail) ==
    IF fail \in {"begin", "select"} THEN [account |-> account, err |-> ErrDB]
    ELSE IF \E s \in QueryRow(account, [r \in BagToSet(account) |-> r.keyword = keyword /\ r.account = acc]) :
                s.err = Nil
         THEN [account |-> account, err |-> ErrAccountRegisterExists]
    ELSE IF fail \in {"insert", "commit"} THEN [account |-> account, err |-> ErrDB]
    ELSE [account |-> account (+) SetToBag({[uid |-> uid, keyword |-> keyword,
                                             account |-> acc]}),
          err |-> Nil]

\* mutant: a pair that is bound already is handed over to the new uid
BindTakesOver(uid, keyword, acc, fail) ==
    IF fail \in {"begin", "select"} THEN [account |-> account, err |-> ErrDB]
    ELSE IF \E s \in SelectAccount(keyword, acc) : s.err = Nil
         THEN [account |-> UpdateWhere(account,
                             [r \in BagToSet(account) |->
                                 r.keyword = keyword /\ r.account = acc],
                             [r \in BagToSet(account) |-> [r EXCEPT !.uid = uid]]),
               err |-> ErrAccountBindExists]
    ELSE IF fail \in {"insert", "commit"} THEN [account |-> account, err |-> ErrDB]
    ELSE [account |-> InsertInto(account, AccountRow(uid, keyword, acc)), err |-> Nil]

BindFails == {"none", "select", "commit"}
Bind(uid, keyword, acc, fail) ==
    IF fail \in {"begin", "select"} THEN [account |-> account, err |-> ErrDB]
    ELSE IF \E s \in SelectAccount(keyword, acc) : s.err = Nil
         THEN [account |-> account, err |-> ErrAccountBindExists]
    ELSE IF fail \in {"insert", "commit"} THEN [account |-> account, err |-> ErrDB]
    ELSE [account |-> InsertInto(account, AccountRow(uid, keyword, acc)), err |-> Nil]

\* mutant: the UserStatus row is written with status Banned
WithUserRowBanned(usr, uid) ==
    IF HasFlag(FlagWithUser) THEN InsertInto(usr, UserRow(uid, UserStatusBanned)) ELSE usr

\* the UserStatus row written with the Account row when the user module is on
WithUserRow(usr, uid) ==
    IF HasFlag(FlagWithUser) THEN InsertInto(usr, UserRow(uid, UserStatusNormal)) ELSE usr

\* mutant: the Account row stays when the UserStatus insert fails (no rollback)
InsertKeepsAccountRow(uid, keyword, acc, fail) ==
    LET same(e) == [account |-> account, user |-> user, err |-> e]
    IN  IF fail \in {"begin", "select"} THEN same(ErrDB)
        ELSE IF \E s \in SelectAccount(keyword, acc) : s.err = Nil
             THEN same(ErrAccountRegisterExists)
        ELSE IF fail = "insert" THEN same(ErrDB)
        ELSE IF HasFlag(FlagWithUser) /\ fail = "insertuser"
             THEN [account |-> InsertInto(account, AccountRow(uid, keyword, acc)),
                   user |-> user, err |-> ErrDB]
        ELSE IF fail = "commit" THEN same(ErrDB)
        ELSE [account |-> InsertInto(account, AccountRow(uid, keyword, acc)),
              user |-> WithUserRow(user, uid), err |-> Nil]

\* mutant: the user row is written before the existence check returns
InsertUserFirst(uid, keyword, acc, fail) ==
    LET same(e) == [account |-> account, user |-> user, err |-> e]
    IN  IF fail \in {"begin", "select"} THEN same(ErrDB)
        ELSE IF \E s \in SelectAccount(keyword, acc) : s.err = Nil
             THEN [account |-> account, user |-> WithUserRow(user, uid),
                   err |-> ErrAccountRegisterExists]
        ELSE IF fail = "insert" THEN same(ErrDB)
        ELSE IF HasFlag(FlagWithUser) /\ fail = "insertuser" THEN same(ErrDB)
        ELSE IF fail = "commit" THEN same(ErrDB)
        ELSE [account |-> InsertInto(account, AccountRow(uid, keyword, acc)),
              user |-> WithUserRow(user, uid), err |-> Nil]

InsertFails == {"none", "select", "insertuser", "commit"}
Insert(uid, keyword, acc, fail) ==
    LET same(e) == [account |-> account, user |-> user, err |-> e]
    IN  IF fail \in {"begin", "select"} THEN same(ErrDB)
        ELSE IF \E s \in SelectAccount(keyword, acc) : s.err = Nil
             THEN same(ErrAccountRegisterExists)
        ELSE IF fail = "insert" THEN same(ErrDB)
        ELSE IF HasFlag(FlagWithUser) /\ fail = "insertuser" THEN same(ErrDB)
        ELSE IF fail = "commit" THEN same(ErrDB)
        ELSE [account |-> InsertInto(account, AccountRow(uid, keyword, acc)),
              user |-> WithUserRow(user, uid), err |-> Nil]

\* gen is the outcome of the call of the uid generator
FindOrInsertFails == InsertFails

\* mutant: a found account is answered with the generated uid, not the stored one
FindOrInsertGeneratedUID(gen, keyword, acc, fail) ==
    LET same(u, e) == [account |-> account, user |-> user, uid |-> u, err |-> e]
        uid == gen.val
    IN  IF fail \in {"begin", "select"} THEN {same("", ErrDB)}
        ELSE IF \E s \in SelectAccount(keyword, acc) : s.err = Nil
             THEN {same(uid, Nil)}
        ELSE IF fail = "insert" THEN {same("", ErrDB)}
        ELSE IF HasFlag(FlagWithUser) /\ fail = "insertuser" THEN {same("", ErrDB)}
        ELSE IF fail = "commit" THEN {same(uid, ErrDB)}
        ELSE {[account |-> InsertInto(account, AccountRow(uid, keyword, acc)),
               user |-> WithUserRow(user, uid), uid |-> uid, err |-> Nil]}

FindOrInsert(gen, keyword, acc, fail) ==
    LET same(u, e) == [account |-> account, user |-> user, uid |-> u, err |-> e]
        uid == gen.val
    IN  IF fail \in {"begin", "select"} THEN {same("", ErrDB)}
        ELSE IF \E s \in SelectAccount(keyword, acc) : s.err = Nil
             THEN {same(s.row.uid, Nil) : s \in SelectAccount(keyword, acc)}
        ELSE IF fail = "insert" THEN {same("", ErrDB)}
        ELSE IF HasFlag(FlagWithUser) /\ fail = "insertuser" THEN {same("", ErrDB)}
        ELSE IF fail = "commit" THEN {same(uid, ErrDB)}
        ELSE {[account |-> InsertInto(account, AccountRow(uid, keyword, acc)),
               user |-> WithUserRow(user, uid), uid |-> uid, err |-> Nil]}

\* the zero AccountModel Find starts from
AccountModel == AccountRow("", "", "")

\* mutant: the query of Find asks for the account name only
FindQueryByAccount(keyword, acc, fail) ==
    IF fail # "none" THEN {[row |-> AccountModel, err |-> ErrDB]}
    ELSE {[row |-> IF m.err = Nil THEN m.row ELSE AccountModel, err |-> m.err]
             : m \in QueryRow(account, [r \in BagToSet(account) |-> r.account = acc])}

\* the outcomes of the query of Find
FindQuery(keyword, acc, fail) ==
    IF fail # "none" THEN {[row |-> AccountModel, err |-> ErrDB]}
    ELSE {[row |-> IF m.err = Nil THEN m.row ELSE AccountModel, err |-> m.err]
             : m \in SelectAccount(keyword, acc)}

\* mutant: the query is sent even for an empty keyword or account name
FindQueriesAlways(keyword, acc, fail) == FindQuery(keyword, acc, fail)

\* Find: an empty keyword or account name is answered without a query
FindFails == {"none", "select"}
Find(keyword, acc, fail) ==
    IF keyword = "" \/ acc = "" THEN {[row |-> AccountModel, err |-> ErrNoRows]}
    ELSE FindQuery(keyword, acc, fail)

\* the rows of the uids asked for, as a bag
AccountFindAllByUID(uids) ==
    IF uids = {} THEN EmptyBag
    ELSE [r \in Where(account, [r \in BagToSet(account) |-> r.uid \in uids])
            |-> CopiesIn(r, account)]

\* the (keyword, account) pair of an account row
Pair(keyword, acc) == [keyword |-> keyword, account |-> acc]

\* mutant: a later row of a uid overwrites the pair of an earlier one
AccountsOnePair(uids) ==
    LET models == AccountFindAllByUID(uids)
        found == {r.uid : r \in BagToSet(models)}
    IN [u \in found |->
          LET r == CHOOSE x \in BagToSet(models) : x.uid = u
          IN SetToBag({Pair(r.keyword, r.account)})]

\* Accounts: uid -> the bag of the pairs of its rows
Accounts(uids) ==
    LET models == AccountFindAllByUID(uids)
        found == {r.uid : r \in BagToSet(models)}
    IN [u \in found |->
          [p \in {Pair(r.keyword, r.account) :
                    r \in {x \in BagToSet(models) : x.uid = u}}
             |-> CopiesIn(AccountRow(u, p.keyword, p.account), models)]]

\* a failing query is returned as it is, sql.ErrNoRows becomes ("", nil)
AccountToUID(keyword, acc, fail) ==
    {IF m.err = ErrNoRows THEN [uid |-> "", err |-> Nil]
     ELSE [uid |-> m.row.uid, err |-> m.err] : m \in Find(keyword, acc, fail)}


Register(gen, keyword, acc, fail) ==
    IF gen.err # Nil
    THEN [account |-> account, user |-> user, uid |-> gen.val, err |-> gen.err]
    ELSE LET r == Insert(gen.val, keyword, acc, fail)
         IN [account |-> r.account, user |-> r.user, uid |-> gen.val, err |-> r.err]

----------------------------------------------------------------------------
(* String generators and the password hash *)

HexDigits == <<"0", "1", "2", "3", "4", "5", "6", "7", "8", "9",
               "a", "b", "c", "d", "e", "f">>

\* hex.EncodeToString: two lower-case digits for each byte
RECURSIVE HexEncodeToString(_)
HexEncodeToString(bytes) ==
    IF bytes = <<>> THEN ""
    ELSE HexDigits[(Head(bytes) \div 16) + 1] \o HexDigits[(Head(bytes) % 16) + 1]
            \o HexEncodeToString(Tail(bytes))

\* the byte strings rand.Read is taken to fill in: one value repeated
RandomReads == {[i \in 1..RandomBytesLength |-> b] : b \in ByteValues}

\* outcomes of RandomBytes, the default salt generator
RandomBytes ==
    {[val |-> HexEncodeToString(bytes), err |-> Nil] : bytes \in RandomReads}
        \cup {[val |-> "", err |-> ErrGen]}

\* strconv.FormatInt(n, 10) for n >= 0
RECURSIVE FormatInt(_)
FormatInt(n) ==
    IF n < 10 THEN HexDigits[n + 1]
    ELSE FormatInt(n \div 10) \o HexDigits[(n % 10) + 1]

\* outcomes of the token generator: by default Timestamp, the decimal clock
\* reading; a generator put in its place may also fail
TokenGenerated ==
    {[val |-> FormatInt(now), err |-> Nil] : now \in 0..MaxClock}
        \cup {[val |-> "", err |-> ErrGen]}

\* a SHA-256 digest, as an injective function of the bytes written
SHA256(written) == <<"sha256", written>>

\* HashFuncMap["sha256"]: the digest of key+salt+password is written back to
\* the same hash state before the second Sum, and the result is hex-encoded
Sha256HashFunc(key, salt, pw) ==
    LET val == key \o salt \o pw
    IN <<"hex", SHA256(<<val, SHA256(<<val>>)>>)>>

\* a hash function a program registers beside the default one
CustomHashFunc(key, salt, pw) == <<"custom", pw, salt, key>>

HashMethods == {"sha256", "custom"}

\* mutant: the hash leaves the password out
HashWithoutPassword(method, key, salt, pw) ==
    IF method = "sha256" THEN Sha256HashFunc(key, salt, "")
    ELSE CustomHashFunc(key, salt, "")

\* hash(key, salt, password) for hash := HashFuncMap[method]
Hash(method, key, salt, pw) ==
    IF method = "sha256" THEN Sha256HashFunc(key, salt, pw)
    ELSE CustomHashFunc(key, salt, pw)

----------------------------------------------------------------------------
(* PasswordDataMapper *)

PasswordRow(uid, method, salt, hashed) ==
    [uid |-> uid, hash_method |-> method, salt |-> salt, password |-> hashed]

\* mutant: the query runs for the empty uid too
PasswordFindAnyUID(uid, fail) ==
    IF fail = "select" THEN {[err |-> ErrDB]}
    ELSE QueryRow(password, [r \in BagToSet(password) |-> r.uid = uid])

PasswordFind(uid, fail) ==
    IF uid = "" THEN {[err |-> ErrNoRows]}
    ELSE IF fail = "select" THEN {[err |-> ErrDB]}
    ELSE QueryRow(password, [r \in BagToSet(password) |-> r.uid = uid])

\* mutant: every update inserts a row
PasswordInsertAlways(model, fail) ==
    IF fail # "none" THEN [password |-> password, err |-> ErrDB]
    ELSE [password |-> InsertInto(password, model), err |-> Nil]

\* mutant: the update of an existing row leaves its salt as it was
PasswordUpdateKeepsSalt(model, fail) ==
    LET affected == CountWhere(password, [r \in BagToSet(password) |-> r.uid = model.uid])
        same == [password |-> password, err |-> ErrDB]
    IN  IF fail \in {"begin", "update", "affected"} THEN same
        ELSE IF affected # 0
             THEN IF fail = "commit" THEN same
                  ELSE [password |-> UpdateWhere(password,
                                      [r \in BagToSet(password) |-> r.uid = model.uid],
                                      [r \in BagToSet(password) |->
                                          [model EXCEPT !.salt = r.salt]]),
                        err |-> Nil]
        ELSE IF fail \in {"insert", "commit"} THEN same
        ELSE [password |-> InsertInto(password, model), err |-> Nil]

PasswordInsertOrUpdateFails == {"none", "update", "commit"}
PasswordInsertOrUpdate(model, fail) ==
    LET affected == CountWhere(password, [r \in BagToSet(password) |-> r.uid = model.uid])
        same == [password |-> password, err |-> ErrDB]
    IN  IF fail \in {"begin", "update", "affected"} THEN same
        ELSE IF affected # 0
             THEN IF fail = "commit" THEN same
                  ELSE [password |-> UpdateWhere(password,
                                      [r \in BagToSet(password) |-> r.uid = model.uid],
                                      [r \in BagToSet(password) |-> model]),
                        err |-> Nil]
        ELSE IF fail \in {"insert", "commit"} THEN same
        ELSE [password |-> InsertInto(password, model), err |-> Nil]

\* mutant: the password is hashed with the facade's current method instead of
\* the method stored in the row
VerifyWithCurrentMethod(uid, pw, fail) ==
    {IF m.err = ErrNoRows THEN [ok |-> FALSE, err |-> ErrUserNotFound]
     ELSE IF m.err # Nil THEN [ok |-> FALSE, err |-> m.err]
     ELSE IF HashMethod \notin HashFuncMap
          THEN [ok |-> FALSE, err |-> ErrHashMethodNotFound]
     ELSE [ok |-> Hash(HashMethod, PasswordKey, m.row.salt, pw) = m.row.password,
           err |-> Nil]
       : m \in PasswordFind(uid, fail)}

VerifyPasswordFails == {"none", "select"}
VerifyPassword(uid, pw, fail) ==
    {IF m.err = ErrNoRows THEN [ok |-> FALSE, err |-> ErrUserNotFound]
     ELSE IF m.err # Nil THEN [ok |-> FALSE, err |-> m.err]
     ELSE IF m.row.hash_method \notin HashFuncMap
          THEN [ok |-> FALSE, err |-> ErrHashMethodNotFound]
     ELSE [ok |-> Hash(m.row.hash_method, PasswordKey, m.row.salt, pw) = m.row.password,
           err |-> Nil]
       : m \in PasswordFind(uid, fail)}

\* gen is the outcome of the call of the salt generator
\* mutant: an unregistered configured method falls back to the default method
UpdatePasswordDefaultMethod(uid, pw, gen, fail) ==
    LET method == IF HashMethod \in HashFuncMap THEN HashMethod ELSE DefaultHashMethod
    IN  IF gen.err # Nil THEN [password |-> password, err |-> gen.err]
        ELSE PasswordInsertOrUpdate(
                 PasswordRow(uid, method, gen.val,
                             Hash(method, PasswordKey, gen.val, pw)), fail)

UpdatePassword(uid, pw, gen, fail) ==
    IF gen.err # Nil THEN [password |-> password, err |-> gen.err]
    ELSE IF HashMethod \notin HashFuncMap
         THEN [password |-> password, err |-> ErrHashMethodNotFound]
    ELSE PasswordInsertOrUpdate(
             PasswordRow(uid, HashMethod, gen.val,
                         Hash(HashMethod, PasswordKey, gen.val, pw)), fail)

----------------------------------------------------------------------------
(* TokenDataMapper *)

TokenRow(uid, tok) == [uid |-> uid, token |-> tok]

\* mutant: the zero-rows test of the update is inverted
TokenInsertWhenAffected(uid, tok, fail) ==
    LET affected == CountWhere(token, [r \in BagToSet(token) |-> r.uid = uid])
    IN  IF fail # "none" THEN [token |-> token, err |-> ErrDB]
        ELSE IF affected = 0
             THEN [token |-> token, err |-> Nil]
        ELSE [token |-> InsertInto(token, TokenRow(uid, tok)), err |-> Nil]

TokenInsertOrUpdateFails == {"none", "update", "commit"}
TokenInsertOrUpdate(uid, tok, fail) ==
    LET affected == CountWhere(token, [r \in BagToSet(token) |-> r.uid = uid])
        same == [token |-> token, err |-> ErrDB]
    IN  IF fail \in {"begin", "update", "affected"} THEN same
        ELSE IF affected # 0
             THEN IF fail = "commit" THEN same
                  ELSE [token |-> UpdateWhere(token,
                                      [r \in BagToSet(token) |-> r.uid = uid],
                                      [r \in BagToSet(token) |-> TokenRow(r.uid, tok)]),
                        err |-> Nil]
        ELSE IF fail \in {"insert", "commit"} THEN same
        ELSE [token |-> InsertInto(token, TokenRow(uid, tok)), err |-> Nil]

\* rows of the token table with uid in uids; nothing is queried for an empty list
TokenFindAllByUID(uids) ==
    IF uids = {} THEN {} ELSE Where(token, [r \in BagToSet(token) |-> r.uid \in uids])

\* the possible maps Tokens returns (the row iterated last decides)
Tokens(uids) ==
    LET models == TokenFindAllByUID(uids)
        found == {r.uid : r \in models}
    IN {m \in [found -> {r.token : r \in models}] :
          \A u \in found : \E r \in models : r.uid = u /\ m[u] = r.token}

\* gen is the outcome of the call of the token generator
Revoke(uid, gen, fail) ==
    IF gen.err # Nil THEN [token |-> token, out |-> "", err |-> gen.err]
    ELSE LET r == TokenInsertOrUpdate(uid, gen.val, fail)
         IN [token |-> r.token, out |-> gen.val, err |-> r.err]

----------------------------------------------------------------------------
(* UserDataMapper *)

\* mutant: the update is skipped and every call inserts a row
UserInsertAlways(uid, status, fail) ==
    IF fail # "none" THEN [user |-> user, err |-> ErrDB]
    ELSE [user |-> InsertInto(user, UserRow(uid, status)), err |-> Nil]

UserInsertOrUpdateFails == {"none", "update", "commit"}
UserInsertOrUpdate(uid, status, fail) ==
    LET affected == CountWhere(user, [r \in BagToSet(user) |-> r.uid = uid])
    IN  IF fail \in {"begin", "update", "affected"} THEN [user |-> user, err |-> ErrDB]
        ELSE IF affected # 0
             THEN IF fail = "commit" THEN [user |-> user, err |-> ErrDB]
                  ELSE [user |-> UpdateWhere(user,
                                      [r \in BagToSet(user) |-> r.uid = uid],
                                      [r \in BagToSet(user) |-> UserRow(r.uid, status)]),
                        err |-> Nil]
        ELSE IF fail \in {"insert", "commit"} THEN [user |-> user, err |-> ErrDB]
        ELSE [user |-> InsertInto(user, UserRow(uid, status)), err |-> Nil]

Ban(uid, banned, fail) ==
    UserInsertOrUpdate(uid, IF banned THEN UserStatusBanned ELSE UserStatusNormal, fail)

\* rows of the user table with uid in uids; nothing is queried for an empty list
UserFindAllByUID(uids) ==
    IF uids = {} THEN {} ELSE Where(user, [r \in BagToSet(user) |-> r.uid \in uids])

\* the possible maps Banned returns: with several rows for a uid the row
\* iterated last decides, and the rows come in no particular order
Banned(uids) ==
    LET models == UserFindAllByUID(uids)
        found == {r.uid : r \in models}
    IN {m \in [found -> BOOLEAN] :
          \A u \in found : \E r \in models :
              r.uid = u /\ m[u] = (r.status = UserStatusBanned)}

----------------------------------------------------------------------------
(* Actions *)

\* what a call is about: the (keyword, account) pair of an account call, the
\* uid of a password, token or user-status call
Subject(c) ==
    <<c.op, c.keyword, c.account,
      IF c.op \in {"UpdatePassword", "VerifyPassword", "Revoke", "Ban"} THEN c.uid ELSE "">>

\* last is the call just made, when its operation is observed; prev is the
\* call before it when that was the same operation on the same subject (two
\* successive calls); NoCall otherwise
Record(c) ==
    /\ last' = IF c.op \in observed THEN c ELSE NoCall
    /\ prev' = IF c.op \in observed /\ Subject(last) = Subject(c) THEN last ELSE NoCall
    /\ UNCHANGED <<observed, running, web>>

\* rows of the account table for the pair, rows of the user table for the uid
AccountRows(keyword, acc) ==
    CountWhere(account, [r \in BagToSet(account) |-> r.keyword = keyword /\ r.account = acc])
UserRows(uid) == CountWhere(user, [r \in BagToSet(user) |-> r.uid = uid])

CallUnbind ==
    \E uid \in UIDs, k \in Keywords, a \in AccountNames, fail \in UnbindFails :
        LET o == Unbind(uid, k, a, fail)
        IN /\ account' = o.account
           /\ Record(Call("Unbind", uid, k, a, "", o.err, "", AccountRows(k, a), 0, 0))
           /\ UNCHANGED <<user, password, token, config>>

CallBind ==
    \E uid \in UIDs, k \in Keywords, a \in AccountNames, fail \in BindFails :
        LET o == Bind(uid, k, a, fail)
        IN /\ account' = o.account
           /\ Record(Call("Bind", uid, k, a, "", o.err, "", AccountRows(k, a),
                          Added(o.account, account), 0))
           /\ UNCHANGED <<user, password, token, config>>

CallInsert ==
    \E uid \in UIDs, k \in Keywords, a \in AccountNames, fail \in InsertFails :
        LET o == Insert(uid, k, a, fail)
        IN /\ BagCardinality(o.user) <= MaxUserRows
           /\ account' = o.account
           /\ user' = o.user
           /\ Record(Call("Insert", uid, k, a, "", o.err, "", AccountRows(k, a),
                          Added(o.account, account), Added(o.user, user)))
           /\ UNCHANGED <<password, token, config>>

CallRegister ==
    \E gen \in Generated(UIDs), k \in Keywords, a \in AccountNames,
       fail \in InsertFails :
        LET o == Register(gen, k, a, fail)
        IN /\ BagCardinality(o.user) <= MaxUserRows
           /\ account' = o.account
           /\ user' = o.user
           /\ Record(Call("Register", "", k, a, gen.val, o.err, o.uid, AccountRows(k, a),
                          Added(o.account, account), Added(o.user, user)))
           /\ UNCHANGED <<password, token, config>>

CallFindOrInsert ==
    \E gen \in Generated(UIDs), k \in Keywords, a \in AccountNames,
       fail \in FindOrInsertFails :
        \E o \in FindOrInsert(gen, k, a, fail) :
           /\ BagCardinality(o.user) <= MaxUserRows
           /\ account' = o.account
           /\ user' = o.user
           /\ Record(Call("FindOrInsert", "", k, a, gen.val, o.err, o.uid,
                          AccountRows(k, a),
                          Added(o.account, account), Added(o.user, user)))
           /\ UNCHANGED <<password, token, config>>

CallBan ==
    \E uid \in UpsertUIDs, banned \in BOOLEAN, fail \in UserInsertOrUpdateFails :
        LET o == Ban(uid, banned, fail)
        IN /\ BagCardinality(o.user) <= MaxUserRows
           /\ user' = o.user
           /\ Record(Call("Ban", uid, "", "", IF banned THEN "true" ELSE "false",
                          o.err, "", UserRows(uid), 0, Added(o.user, user)))
           /\ UNCHANGED <<account, password, token, config>>

PasswordRows(uid) == CountWhere(password, [r \in BagToSet(password) |-> r.uid = uid])
TokenRows(uid) == CountWhere(token, [r \in BagToSet(token) |-> r.uid = uid])

CallUpdatePassword ==
    \E uid \in UpsertUIDs, pw \in Passwords, gen \in RandomBytes,
       fail \in PasswordInsertOrUpdateFails :
        LET o == UpdatePassword(uid, pw, gen, fail)
        IN /\ password' = o.password
           /\ Record(Call("UpdatePassword", uid, "", "", pw, o.err, gen.val,
                          PasswordRows(uid), 0, 0))
           /\ UNCHANGED <<account, user, token, config>>

CallVerifyPassword ==
    \E uid \in UpsertUIDs, pw \in Passwords, fail \in VerifyPasswordFails :
        \E o \in VerifyPassword(uid, pw, fail) :
           /\ Record(Call("VerifyPassword", uid, "", "", pw, o.err,
                          IF o.ok THEN "true" ELSE "false", PasswordRows(uid), 0, 0))
           /\ UNCHANGED <<tables, config>>

CallRevoke ==
    \E uid \in UpsertUIDs, gen \in TokenGenerated, fail \in TokenInsertOrUpdateFails :
        LET o == Revoke(uid, gen, fail)
        IN /\ token' = o.token
           /\ Record(Call("Revoke", uid, "", "", gen.val, o.err, o.out,
                          TokenRows(uid), 0, 0))
           /\ UNCHANGED <<account, user, password, config>>

\* the program assigns User.PasswordKey, User.HashMethod and HashFuncMap[name]
SetPasswordKey ==
    \E key \in PasswordKeys :
        /\ PasswordKey' = key
        /\ Record(Call("SetPasswordKey", "", "", "", key, Nil, "", 0, 0, 0))
        /\ UNCHANGED <<tables, Flag, HashMethod, HashFuncMap>>

\* an assignment of User.HashMethod is no call of a handler: the record of
\* the latest call stays
SetHashMethod ==
    \E method \in HashMethods :
        /\ HashMethod' = method
        /\ UNCHANGED <<tables, Flag, PasswordKey, HashFuncMap, web, observed, last, prev, running>>

\* HashFuncMap[method] = f
RegisterHashFunc ==
    \E method \in HashMethods :
        /\ HashFuncMap' = HashFuncMap \cup {method}
        /\ UNCHANGED <<tables, Flag, HashMethod, PasswordKey, web, observed, last, prev, running>>

\* the rows outlive the registry: delete(HashFuncMap, method), or a program
\* started later that does not register the method
UnregisterHashFunc ==
    \E method \in HashMethods :
        /\ HashFuncMap' = HashFuncMap \ {method}
        /\ UNCHANGED <<tables, Flag, HashMethod, PasswordKey, web, observed, last, prev, running>>

----------------------------------------------------------------------------
(* wechatmpauth: the OAuth callback of the WeChat driver.  One browser
   session; its requests are handled one after the other, the callback
   statement by statement. *)

\* the states RandToken can return, the state and code parameters of a
\* callback request
States == {"s1", "s2"}
RequestStates == States \cup {""}
RequestCodes == {"", "c1"}

\* no value stored under FieldName
SessionNotFound == "notfound"

NoResult == "nil"
ErrAuthParamsError == "auth.ErrAuthParamsError"
ErrSession == "session error"
ErrFetch == "fetch error"

\* what app.GetUserInfo(code) can answer
UserInfos == {"codewrong", "error", "noinfo", "info"}

\* a callback: its parameters, the State read from the session, the statement
\* reached and the values returned
Request(pc, code, state, stored, result, err) ==
    [pc |-> pc, code |-> code, state |-> state, stored |-> stored,
     result |-> result, err |-> err]

IdleRequest == Request("idle", "", "", "", NoResult, Nil)

\* the callback returns (result, err)
Return(r, result, err) ==
    /\ request' = [r EXCEPT !.pc = "done", !.result = result, !.err = err]
    /\ served' = IF Len(served) < 2 THEN Append(served, request')
                 ELSE <<served[2], request'>>

\* ExternalLogin: a fresh state is stored in the session and sent to WeChat;
\* a failing RandToken or Session.Set panics and stores nothing
ExternalLogin ==
    \E state \in States, fail \in BOOLEAN :
        /\ request.pc \in {"idle", "done"}
        /\ IF fail THEN UNCHANGED <<session, served>>
           ELSE session' = state /\ served' = <<>>
        /\ UNCHANGED <<tables, config, request, observed, last, prev, running>>

\* authRequestWithAgent up to the comparison of the states; get is the outcome
\* of Session.Get: an error other than not found is not looked at and leaves
\* authsession.State empty
AuthRequestCheck ==
    \E code \in RequestCodes, state \in RequestStates, get \in {"ok", "error"} :
        LET stored == IF session = SessionNotFound \/ get = "error" THEN ""
                      ELSE session
            r == Request("check", code, state, stored, NoResult, Nil)
        IN /\ request.pc \in {"idle", "done"}
           /\ IF code = "" THEN Return(r, NoResult, Nil)
              ELSE IF state = "" THEN Return(r, NoResult, ErrAuthParamsError)
              ELSE IF get = "ok" /\ session = SessionNotFound
                   THEN Return(r, NoResult, Nil)
              ELSE IF stored = "" \/ stored # state
                   THEN Return(r, NoResult, ErrAuthParamsError)
              ELSE request' = [r EXCEPT !.pc = "del"] /\ UNCHANGED served
           /\ UNCHANGED <<tables, config, session, observed, last, prev, running>>

\* mutant: the stored state stays in the session
AuthRequestKeepsState ==
    /\ request.pc = "del"
    /\ request' = [request EXCEPT !.pc = "fetch"]
    /\ UNCHANGED <<tables, config, session, served, observed, last, prev, running>>

\* provider.Auth.Session.Del(r, FieldName)
AuthRequestDel ==
    \E fail \in BOOLEAN :
        /\ request.pc = "del"
        /\ IF fail THEN Return(request, NoResult, ErrSession) /\ UNCHANGED session
           ELSE /\ session' = SessionNotFound
                /\ request' = [request EXCEPT !.pc = "fetch"]
                /\ UNCHANGED served
        /\ UNCHANGED <<tables, config, observed, last, prev, running>>

\* app.GetUserInfo(code) and the result built from it
AuthRequestFetch ==
    \E info \in UserInfos :
        /\ request.pc = "fetch"
        /\ IF info = "codewrong" THEN Return(request, NoResult, ErrAuthParamsError)
           ELSE IF info = "error" THEN Return(request, NoResult, ErrFetch)
           ELSE IF info = "noinfo" THEN Return(request, NoResult, Nil)
           ELSE Return(request, "result", Nil)
        /\ UNCHANGED <<tables, config, session, observed, last, prev, running>>

----------------------------------------------------------------------------
(* Specifications *)

\* the facade New(db, flag) returns, over empty tables
New(flag) ==
    /\ account = EmptyBag
    /\ user = EmptyBag
    /\ password = EmptyBag
    /\ token = EmptyBag
    /\ Flag = flag
    /\ HashMethod = DefaultHashMethod
    /\ PasswordKey = ""
    /\ HashFuncMap = {"sha256"}
    /\ last = NoCall
    /\ prev = NoCall
    /\ running = [p \in Procs |-> IdleProc]
    /\ session = SessionNotFound
    /\ request = IdleRequest
    /\ served = <<>>

AccountOps == {"Unbind", "Bind", "Insert", "Register", "FindOrInsert"}
PasswordOps == {"UpdatePassword", "VerifyPassword"}

\* a facade created with every module
AllModules == FlagWithAccount + FlagWithPassword + FlagWithToken + FlagWithUser

\* the account store, with the user store it writes to
NextAccount ==
    \/ CallUnbind
    \/ CallBind
    \/ CallInsert
    \/ CallRegister
    \/ CallFindOrInsert

InitAccount == \E flag \in Flags : New(flag) /\ observed = AccountOps

SpecAccount == InitAccount /\ [][NextAccount]_vars

\* the password store, with the configuration it reads
NextPassword ==
    \/ CallUpdatePassword
    \/ CallVerifyPassword
    \/ SetPasswordKey

InitPassword == New(AllModules) /\ observed = PasswordOps

SpecPassword == InitPassword /\ [][NextPassword]_vars

\* the three upserts: password, token and user status
NextUpsert ==
    \/ CallUpdatePassword
    \/ CallRevoke
    \/ CallBan

InitUpsert == New(AllModules) /\ observed = {"Ban"}

SpecUpsert == InitUpsert /\ [][NextUpsert]_vars

\* the token store
NextToken == CallRevoke

InitToken == New(AllModules) /\ observed = {"Revoke"}

SpecToken == InitToken /\ [][NextToken]_vars

\* the user store
NextUser == CallBan

InitUser == New(AllModules) /\ observed = {"Ban"}

SpecUser == InitUser /\ [][NextUser]_vars

----------------------------------------------------------------------------
(* Claims about the account store, checked under SpecAccount *)

\* C1: after any sequence of Bind, Unbind, Insert, Register and FindOrInsert
\* calls made one at a time, the account table holds at most one row for each
\* (keyword, account) pair.
C1_UniquePair ==
    \A k \in Keywords, a \in AccountNames : AccountRows(k, a) <= 1

\* a single uid owns the rows of several pairs
C1_Witness ==
    \E uid \in UIDs :
        Cardinality({r \in BagToSet(account) : r.uid = uid}) >= 2

\* C2: Bind on a pair that has no row succeeds (unless the store fails); a
\* Bind that follows a successful Bind of the same pair, by whatever uid,
\* returns ErrAccountBindExists, and then exactly one row of the pair is stored.
C2_BindTwice ==
    /\ (last.op = "Bind" /\ last.had = 0 /\ last.err \notin EnvErrors)
          => /\ last.err = Nil
             /\ CopiesIn(AccountRow(last.uid, last.keyword, last.account), account) = 1
    /\ (last.op = "Bind" /\ prev.op = "Bind" /\ prev.err = Nil
            /\ last.err \notin EnvErrors)
          => /\ last.err = ErrAccountBindExists
             /\ AccountRows(last.keyword, last.account) = 1
             /\ CopiesIn(AccountRow(prev.uid, prev.keyword, prev.account), account) = 1

\* a second Bind of the pair by another uid was refused
C2_Witness ==
    /\ last.op = "Bind" /\ prev.op = "Bind"
    /\ prev.err = Nil /\ last.err = ErrAccountBindExists
    /\ last.uid # prev.uid

\* two successive successful FindOrInsert calls for the same pair
TwoFindOrInsert ==
    /\ last.op = "FindOrInsert" /\ prev.op = "FindOrInsert"
    /\ last.err = Nil /\ prev.err = Nil

\* C7 as stated: two successive FindOrInsert calls with the same pair return
\* the same uid, and afterwards exactly one Account row exists for the pair
\* and, with WithUser set, exactly one UserStatus row exists for that uid.
C7_Original ==
    TwoFindOrInsert =>
        /\ last.out = prev.out
        /\ AccountRows(last.keyword, last.account) = 1
        /\ HasFlag(FlagWithUser) => UserRows(last.out) = 1

\* C7 amended: two successive FindOrInsert calls with the same pair return the
\* same uid and afterwards exactly one Account row exists for the pair; the
\* first call creates one Account row and, with WithUser set, one UserStatus
\* row exactly when the pair had no row before it, and the second creates none.
C7_FindOrInsertTwice ==
    TwoFindOrInsert =>
        /\ last.out = prev.out
        /\ AccountRows(last.keyword, last.account) = 1
        /\ CopiesIn(AccountRow(last.out, last.keyword, last.account), account) = 1
        /\ last.da = 0 /\ last.du = 0
        /\ prev.da = (IF prev.had = 0 THEN 1 ELSE 0)
        /\ prev.du = (IF prev.had = 0 /\ HasFlag(FlagWithUser) THEN 1 ELSE 0)

\* the first call created the account and its user row, the second found it
C7_Witness ==
    /\ TwoFindOrInsert
    /\ HasFlag(FlagWithUser)
    /\ prev.da = 1 /\ prev.du = 1
    /\ last.out = prev.out /\ last.out # ""

\* C9: Register for a pair that has no row returns, unless the generator or
\* the store fails, the uid the uid generator produced and no error, and
\* afterwards the Account row (uid, keyword, account) is stored and, with
\* WithUser set, a UserStatus row of that uid with status Normal.
C9_RegisterFresh ==
    (last.op = "Register" /\ last.had = 0 /\ last.err \notin EnvErrors)
        => /\ last.err = Nil
           /\ last.out = last.arg
           /\ CopiesIn(AccountRow(last.out, last.keyword, last.account), account) = 1
           /\ AccountRows(last.keyword, last.account) = 1
           /\ HasFlag(FlagWithUser) =>
                 CopiesIn(UserRow(last.out, UserStatusNormal), user) >= 1

\* a registration with the user module on has written both rows
C9_Witness ==
    /\ last.op = "Register" /\ last.had = 0 /\ last.err = Nil
    /\ HasFlag(FlagWithUser)
    /\ CopiesIn(UserRow(last.out, UserStatusNormal), user) = 1

\* C10: Register or Insert for a pair that already has a row returns, unless
\* the generator or the store fails, ErrAccountRegisterExists, and leaves the
\* account table and the user table as they were.
C10_RegisterExists ==
    [][ (/\ last'.op \in {"Register", "Insert"}
         /\ AccountRows(last'.keyword, last'.account) > 0
         /\ last'.err \notin EnvErrors)
        => (/\ last'.err = ErrAccountRegisterExists
            /\ account' = account
            /\ user' = user) ]_vars

\* a registration was refused with the user module on
C10_Witness ==
    /\ last.op = "Register" /\ last.had = 1
    /\ last.err = ErrAccountRegisterExists
    /\ HasFlag(FlagWithUser)
    /\ user # EmptyBag

----------------------------------------------------------------------------
(* Claims about the password store, checked under SpecPassword *)

\* what VerifyPassword returns right after a successful UpdatePassword(uid, p):
\* (true, nil) for p and (false, nil) for every other password
VerifiesOnly(uid, p) ==
    \A p2 \in Passwords :
        VerifyPassword(uid, p2, "none") = {[ok |-> (p2 = p), err |-> Nil]}

\* C3 as stated: for every uid, after UpdatePassword(uid, p) succeeds,
\* VerifyPassword(uid, p) returns (true, nil) and VerifyPassword(uid, p2)
\* returns (false, nil) for every p2 other than p.
C3_Original ==
    (last.op = "UpdatePassword" /\ last.err = Nil)
        => VerifiesOnly(last.uid, last.arg)

\* C3 amended: the same for every uid that is not empty (for the empty uid
\* the row is written but VerifyPassword returns ErrUserNotFound).
C3_UpdateThenVerify ==
    (last.op = "UpdatePassword" /\ last.err = Nil)
        => IF last.uid # "" THEN VerifiesOnly(last.uid, last.arg)
           ELSE \A p2 \in Passwords :
                   VerifyPassword("", p2, "none") = {[ok |-> FALSE, err |-> ErrUserNotFound]}

\* a password was replaced, under a static key that is not empty
C3_Witness ==
    /\ last.op = "UpdatePassword" /\ last.err = Nil
    /\ last.uid # "" /\ last.had = 1
    /\ PasswordKey # ""
    /\ VerifiesOnly(last.uid, last.arg)

\* VerifyPassword never answers (false, nil) for a uid without a row
NoRowNeverNil ==
    \A uid \in UpsertUIDs, pw \in Passwords, fail \in VerifyPasswordFails :
        \A o \in VerifyPassword(uid, pw, fail) :
            PasswordRows(uid) = 0 => o.err # Nil

\* C4 as stated: VerifyPassword(uid, p) returns ErrUserNotFound exactly when
\* no password row exists for uid; never (false, nil) for a uid without a row
\* and never ErrUserNotFound for a uid that has a row.
C4_Original ==
    /\ NoRowNeverNil
    /\ \A uid \in UpsertUIDs, pw \in Passwords :
        \A o \in VerifyPassword(uid, pw, "none") :
            (o.err = ErrUserNotFound) <=> (PasswordRows(uid) = 0)

\* C4 amended: VerifyPassword(uid, p) returns ErrUserNotFound exactly when uid
\* is empty or no password row exists for uid (the store answering); never
\* (false, nil) for a uid without a row, and never ErrUserNotFound for a uid
\* that is not empty and has a row.
C4_UserNotFound ==
    /\ NoRowNeverNil
    /\ \A uid \in UpsertUIDs, pw \in Passwords :
        /\ \A o \in VerifyPassword(uid, pw, "none") :
              (o.err = ErrUserNotFound) <=> (uid = "" \/ PasswordRows(uid) = 0)
        /\ \A fail \in VerifyPasswordFails : \A o \in VerifyPassword(uid, pw, fail) :
              (uid # "" /\ PasswordRows(uid) > 0) => o.err # ErrUserNotFound
    /\ last.op = "VerifyPassword" =>
          /\ (last.err = ErrUserNotFound) => (last.uid = "" \/ last.had = 0)
          /\ (last.err = Nil) => (last.uid # "" /\ last.had > 0)

\* a uid without a row was reported not found while another uid has a row
C4_Witness ==
    /\ last.op = "VerifyPassword" /\ last.err = ErrUserNotFound
    /\ last.uid # "" /\ last.had = 0
    /\ password # EmptyBag

----------------------------------------------------------------------------
(* Claims about the upserts, checked under SpecToken, SpecUser, SpecUpsert *)

\* two successive successful Revoke calls for the same uid
TwoRevokes ==
    /\ last.op = "Revoke" /\ prev.op = "Revoke"
    /\ last.err = Nil /\ prev.err = Nil

C6_Ban ==
    LET status == IF last.arg = "true" THEN UserStatusBanned ELSE UserStatusNormal
    IN  /\ (last.op = "Ban" /\ last.err = Nil)
              => Banned({last.uid}) = {(last.uid :> (last.arg = "true"))}
        /\ (last.op = "Ban" /\ prev.op = "Ban" /\ last.err = Nil /\ prev.err = Nil
                /\ last.arg = prev.arg)
              => /\ UserRows(last.uid) = 1
                 /\ last.du = 0
                 /\ CopiesIn(UserRow(last.uid, status), user) = 1

\* a ban was lifted by the next call
C6_Witness ==
    /\ last.op = "Ban" /\ prev.op = "Ban"
    /\ last.err = Nil /\ prev.err = Nil
    /\ prev.arg = "true" /\ last.arg = "false"
    /\ Banned({last.uid}) = {(last.uid :> FALSE)}

\* C8: after any sequence of UpdatePassword, Revoke and Ban calls made one at a
\* time, the password, token and user tables hold at most one row per uid.
C8_OneRowPerUID ==
    /\ \A r \in BagToSet(password) : PasswordRows(r.uid) = 1
    /\ \A r \in BagToSet(token) : TokenRows(r.uid) = 1
    /\ \A r \in BagToSet(user) : UserRows(r.uid) = 1

\* every uid has its row in each table, after a call was repeated
C8_Witness ==
    /\ \A uid \in UpsertUIDs :
          PasswordRows(uid) = 1 /\ TokenRows(uid) = 1 /\ UserRows(uid) = 1
    /\ prev.op = last.op /\ last.op # "none"
    /\ prev.err = Nil /\ last.err = Nil

----------------------------------------------------------------------------
(* Every mutating operation, one store beside the other *)

\* the rows of the four tables together
Rows ==
    BagCardinality(account) + BagCardinality(user)
        + BagCardinality(password) + BagCardinality(token)

\* the mutating calls, as long as the tables hold at most MaxRows rows
WithinRows == Rows <= MaxRows

MutateUnbind == CallUnbind /\ WithinRows'
MutateBind == CallBind /\ WithinRows'
MutateInsert == CallInsert /\ WithinRows'
MutateRegister == CallRegister /\ WithinRows'
MutateFindOrInsert == CallFindOrInsert /\ WithinRows'
MutateUpdatePassword == CallUpdatePassword /\ WithinRows'
MutateRevoke == CallRevoke /\ WithinRows'
MutateBan == CallBan /\ WithinRows'

NextMutate ==
    \/ MutateUnbind
    \/ MutateBind
    \/ MutateInsert
    \/ MutateRegister
    \/ MutateFindOrInsert
    \/ MutateUpdatePassword
    \/ MutateRevoke
    \/ MutateBan

InitMutate == \E flag \in Flags : New(flag) /\ observed = {}

SpecMutate == InitMutate /\ [][NextMutate]_vars

----------------------------------------------------------------------------
(* Claims about every mutating operation, checked under SpecMutate *)

\* C11: a mutating operation (Bind, Unbind, Insert, Register, FindOrInsert,
\* UpdatePassword, Revoke, Ban) that returns an error leaves every table as
\* it was, whatever the state it is called in and wherever it fails; with
\* WithUser set this covers the failure of the UserStatus insert that follows
\* the Account insert of Insert and FindOrInsert.
C11_ErrorLeavesTables ==
    /\ \A uid \in UIDs, k \in Keywords, a \in AccountNames :
        /\ \A fail \in UnbindFails :
              LET o == Unbind(uid, k, a, fail)
              IN o.err # Nil => o.account = account
        /\ \A fail \in BindFails :
              LET o == Bind(uid, k, a, fail)
              IN o.err # Nil => o.account = account
        /\ \A fail \in InsertFails :
              LET o == Insert(uid, k, a, fail)
              IN o.err # Nil => (o.account = account /\ o.user = user)
    /\ \A gen \in Generated(UIDs), k \in Keywords, a \in AccountNames :
        /\ \A fail \in InsertFails :
              LET o == Register(gen, k, a, fail)
              IN o.err # Nil => (o.account = account /\ o.user = user)
        /\ \A fail \in FindOrInsertFails : \A o \in FindOrInsert(gen, k, a, fail) :
              o.err # Nil => (o.account = account /\ o.user = user)
    /\ \A uid \in UpsertUIDs :
        /\ \A pw \in Passwords, gen \in RandomBytes, fail \in PasswordInsertOrUpdateFails :
              LET o == UpdatePassword(uid, pw, gen, fail)
              IN o.err # Nil => o.password = password
        /\ \A gen \in TokenGenerated, fail \in TokenInsertOrUpdateFails :
              LET o == Revoke(uid, gen, fail)
              IN o.err # Nil => o.token = token
        /\ \A banned \in BOOLEAN, fail \in UserInsertOrUpdateFails :
              LET o == Ban(uid, banned, fail)
              IN o.err # Nil => o.user = user

\* every table holds rows, the user module is on, and an Insert for a pair
\* without a row fails at its UserStatus insert, after its Account insert
C11_Witness ==
    /\ HasFlag(FlagWithUser)
    /\ account # EmptyBag /\ user # EmptyBag
    /\ password # EmptyBag /\ token # EmptyBag
    /\ \E uid \in UIDs, k \in Keywords, a \in AccountNames :
          /\ AccountRows(k, a) = 0
          /\ Insert(uid, k, a, "insertuser").err = ErrDB
          /\ Insert(uid, k, a, "none").account # account

----------------------------------------------------------------------------
(* Concurrent callers, one statement at a time *)

Done(p, err, out) ==
    running' = [running EXCEPT ![p] = [@ EXCEPT !.pc = "done", !.err = err, !.out = out]]

Goto(p, pc) == running' = [running EXCEPT ![p].pc = pc]

\* Bind, statement by statement: tx := a.DB().Begin()
BindBegin ==
    \E p \in Procs, uid \in UIDs, k \in Keywords, a \in AccountNames, fail \in BOOLEAN :
        /\ running[p].pc = "idle"
        /\ running' = [running EXCEPT ![p] =
              IF fail THEN Proc("Bind", "done", uid, k, a, NoRow, ErrDB, "")
              ELSE Proc("Bind", "select", uid, k, a, AccountRow(uid, k, a), Nil, "")]
        /\ UNCHANGED <<tables, config, web, observed, last, prev>>

\* Select.QueryRow(a.DB()) and row.Scan: the existence check is run on the
\* database handle, not on tx
BindSelect ==
    \E p \in Procs, fail \in BOOLEAN :
        LET c == running[p]
        IN /\ c.op = "Bind" /\ c.pc = "select"
           /\ IF fail THEN Done(p, ErrDB, "")
              ELSE IF \E s \in SelectAccount(c.keyword, c.account) : s.err = Nil
                   THEN Done(p, ErrAccountBindExists, "")
              ELSE Goto(p, "insert")
           /\ UNCHANGED <<tables, config, web, observed, last, prev>>

\* Insert.Query().Exec(tx): the row is written in the transaction
BindInsert ==
    \E p \in Procs, fail \in BOOLEAN :
        /\ running[p].op = "Bind" /\ running[p].pc = "insert"
        /\ IF fail THEN Done(p, ErrDB, "") ELSE Goto(p, "commit")
        /\ UNCHANGED <<tables, config, web, observed, last, prev>>

\* tx.Commit(): the row of the transaction joins the committed rows
BindCommit ==
    \E p \in Procs, fail \in BOOLEAN :
        /\ running[p].op = "Bind" /\ running[p].pc = "commit"
        /\ IF fail THEN Done(p, ErrDB, "") /\ UNCHANGED account
           ELSE Done(p, Nil, "") /\ account' = InsertInto(account, running[p].row)
        /\ UNCHANGED <<user, password, token, config, web, observed, last, prev>>

NextBindRace ==
    \/ BindBegin
    \/ BindSelect
    \/ BindInsert
    \/ BindCommit

InitBindRace == New(AllModules) /\ observed = {}

SpecBindRace == InitBindRace /\ [][NextBindRace]_vars

\* the calls of two callers are the same operation on the same pair
SamePair(p, q, op) ==
    /\ p # q
    /\ running[p].op = op /\ running[q].op = op
    /\ running[p].keyword = running[q].keyword
    /\ running[p].account = running[q].account

\* C12 as stated: for two concurrent Bind calls with the same pair,
\* interleaved statement by statement, at most one row of the pair is ever
\* committed and at most one of the calls returns success.
C12_Original ==
    \A p \in Procs, q \in Procs :
        SamePair(p, q, "Bind") =>
            /\ AccountRows(running[p].keyword, running[p].account) <= 1
            /\ ~(/\ running[p].pc = "done" /\ running[p].err = Nil
                 /\ running[q].pc = "done" /\ running[q].err = Nil)

----------------------------------------------------------------------------
(* The upserts of concurrent callers, one statement at a time *)

UpsertOps == {"UpdatePassword", "Revoke", "Ban"}

\* the committed rows of the table an upsert writes to
TableOf(op) ==
    IF op = "UpdatePassword" THEN password
    ELSE IF op = "Revoke" THEN token
    ELSE user

\* UpdatePassword up to the Begin of InsertOrUpdate: the salt is generated and
\* the password hashed before the transaction is opened
UpdatePasswordBegin ==
    \E p \in Procs, uid \in UpsertUIDs, pw \in Passwords, gen \in RandomBytes,
       fail \in BOOLEAN :
        /\ running[p].pc = "idle"
        /\ running' = [running EXCEPT ![p] =
              IF gen.err # Nil
              THEN Proc("UpdatePassword", "done", uid, "", "", NoRow, gen.err, "")
              ELSE IF HashMethod \notin HashFuncMap
              THEN Proc("UpdatePassword", "done", uid, "", "", NoRow,
                        ErrHashMethodNotFound, "")
              ELSE IF fail
              THEN Proc("UpdatePassword", "done", uid, "", "", NoRow, ErrDB, "")
              ELSE Proc("UpdatePassword", "update", uid, "", "",
                        PasswordRow(uid, HashMethod, gen.val,
                                    Hash(HashMethod, PasswordKey, gen.val, pw)),
                        Nil, "")]
        /\ UNCHANGED <<tables, config, web, observed, last, prev>>

\* Revoke up to the Begin of InsertOrUpdate: the token is generated first
RevokeBegin ==
    \E p \in Procs, uid \in UpsertUIDs, gen \in TokenGenerated, fail \in BOOLEAN :
        /\ running[p].pc = "idle"
        /\ running' = [running EXCEPT ![p] =
              IF gen.err # Nil
              THEN Proc("Revoke", "done", uid, "", "", NoRow, gen.err, "")
              ELSE IF fail
              THEN Proc("Revoke", "done", uid, "", "", NoRow, ErrDB, gen.val)
              ELSE Proc("Revoke", "update", uid, "", "", TokenRow(uid, gen.val),
                        Nil, gen.val)]
        /\ UNCHANGED <<tables, config, web, observed, last, prev>>

\* Ban up to the Begin of InsertOrUpdate
BanBegin ==
    \E p \in Procs, uid \in UpsertUIDs, banned \in BOOLEAN, fail \in BOOLEAN :
        /\ running[p].pc = "idle"
        /\ running' = [running EXCEPT ![p] =
              IF fail THEN Proc("Ban", "done", uid, "", "", NoRow, ErrDB, "")
              ELSE Proc("Ban", "update", uid, "", "",
                        UserRow(uid, IF banned THEN UserStatusBanned
                                     ELSE UserStatusNormal),
                        Nil, "")]
        /\ UNCHANGED <<tables, config, web, observed, last, prev>>

\* Update.Query().Exec(tx) and r.RowsAffected(): the rows of uid that are
\* committed are the rows the UPDATE affects
UpsertUpdate ==
    \E p \in Procs, fail \in BOOLEAN :
        LET c == running[p]
            tbl == TableOf(c.op)
            affected == CountWhere(tbl, [r \in BagToSet(tbl) |-> r.uid = c.uid])
        IN /\ c.op \in UpsertOps /\ c.pc = "update"
           /\ IF fail THEN Done(p, ErrDB, c.out)
              ELSE IF affected # 0 THEN Goto(p, "commitupdate")
              ELSE Goto(p, "insert")
           /\ UNCHANGED <<tables, config, web, observed, last, prev>>

\* Insert.Query().Exec(tx), reached when the UPDATE affected no row
UpsertInsert ==
    \E p \in Procs, fail \in BOOLEAN :
        /\ running[p].op \in UpsertOps /\ running[p].pc = "insert"
        /\ IF fail THEN Done(p, ErrDB, running[p].out) ELSE Goto(p, "commit")
        /\ UNCHANGED <<tables, config, web, observed, last, prev>>

\* the table an upsert writes to becomes new, the others stay
Commit(op, new) ==
    /\ password' = IF op = "UpdatePassword" THEN new ELSE password
    /\ token' = IF op = "Revoke" THEN new ELSE token
    /\ user' = IF op = "Ban" THEN new ELSE user

\* tx.Commit() after the UPDATE (rows affected) or after the INSERT
UpsertCommit ==
    \E p \in Procs, fail \in BOOLEAN :
        LET c == running[p]
            tbl == TableOf(c.op)
        IN /\ c.op \in UpsertOps /\ c.pc \in {"commitupdate", "commit"}
           /\ IF fail THEN Done(p, ErrDB, c.out) /\ UNCHANGED <<password, token, user>>
              ELSE /\ Done(p, Nil, c.out)
                   /\ Commit(c.op,
                         IF c.pc = "commit" THEN InsertInto(tbl, c.row)
                         ELSE UpdateWhere(tbl, [r \in BagToSet(tbl) |-> r.uid = c.uid],
                                          [r \in BagToSet(tbl) |-> c.row]))
           /\ UNCHANGED <<account, config, web, observed, last, prev>>

NextUpsertRace ==
    \/ UpdatePasswordBegin
    \/ RevokeBegin
    \/ BanBegin
    \/ UpsertUpdate
    \/ UpsertInsert
    \/ UpsertCommit

InitUpsertRace == New(AllModules) /\ observed = {}

SpecUpsertRace == InitUpsertRace /\ [][NextUpsertRace]_vars

\* C13 as stated: for two concurrent upserts (UpdatePassword, Revoke or Ban)
\* on the same uid that has no row yet, interleaved statement by statement,
\* every final state has exactly one row of that uid in the table concerned.
C13_Original ==
    \A p \in Procs, q \in Procs :
        (/\ p # q
         /\ running[p].op \in UpsertOps /\ running[q].op = running[p].op
         /\ running[p].uid = running[q].uid
         /\ running[p].pc = "done" /\ running[q].pc = "done"
         /\ running[p].err = Nil /\ running[q].err = Nil)
        => CountWhere(TableOf(running[p].op),
                      [r \in BagToSet(TableOf(running[p].op)) |-> r.uid = running[p].uid]) = 1

----------------------------------------------------------------------------
(* The operations that write user-status rows, with the user module on *)

NextUserRows ==
    \/ CallInsert
    \/ CallRegister
    \/ CallFindOrInsert
    \/ CallBan

InitUserRows == New(AllModules) /\ observed = {"Insert", "Register", "FindOrInsert", "Ban"}

SpecUserRows == InitUserRows /\ [][NextUserRows]_vars

\* C14 as stated: with WithUser set, after any sequence of Insert, Register,
\* FindOrInsert and Ban calls the user table holds at most one row per uid.
C14_Original ==
    \A r \in BagToSet(user) : UserRows(r.uid) <= 1

----------------------------------------------------------------------------
(* The password store while the hash method and the registry change *)

NextRotate ==
    \/ CallUpdatePassword
    \/ SetHashMethod
    \/ RegisterHashFunc
    \/ UnregisterHashFunc

InitRotate == New(AllModules) /\ observed = {"UpdatePassword"}

SpecRotate == InitRotate /\ [][NextRotate]_vars

\* the hash methods of the password rows of uid
StoredMethods(uid) ==
    {r.hash_method : r \in Where(password, [r \in BagToSet(password) |-> r.uid = uid])}

\* the latest call stored a password row, and the registry still holds the
\* method it was stored under
StoredAndRegistered ==
    /\ last.op = "UpdatePassword" /\ last.err = Nil
    /\ StoredMethods(last.uid) \subseteq HashFuncMap

\* C15 as stated: if UpdatePassword(uid, p) stored a row under method m1 and
\* HashMethod is then changed to another registered method m2 (m1 still
\* registered), VerifyPassword(uid, p) still returns (true, nil).
C15_Original ==
    StoredAndRegistered =>
        VerifyPassword(last.uid, last.arg, "none") = {[ok |-> TRUE, err |-> Nil]}

\* C15 amended: if UpdatePassword(uid, p) with a uid that is not empty stored
\* a row under method m1, then whatever registered or unregistered method
\* HashMethod is changed to afterwards, as long as m1 is still registered,
\* VerifyPassword(uid, p) returns (true, nil).
C15_RotationKeepsPasswords ==
    (StoredAndRegistered /\ last.uid # "") =>
        VerifyPassword(last.uid, last.arg, "none") = {[ok |-> TRUE, err |-> Nil]}

\* the row was stored under one method and the facade now uses another, both
\* registered
C15_Witness ==
    /\ StoredAndRegistered /\ last.uid # ""
    /\ HashMethod \notin StoredMethods(last.uid)
    /\ HashMethod \in HashFuncMap
    /\ VerifyPassword(last.uid, last.arg, "none") = {[ok |-> TRUE, err |-> Nil]}

\* the password rows whose stored hash method has no registered implementation
UnregisteredRows == {r \in BagToSet(password) : r.hash_method \notin HashFuncMap}

\* UpdatePassword fails with ErrHashMethodNotFound and leaves the password
\* table alone, whatever the uid, the password, the salt and the store do
UpdateRefused ==
    \A uid \in UpsertUIDs, pw \in Passwords, gen \in RandomBytes,
       fail \in PasswordInsertOrUpdateFails :
        gen.err = Nil =>
            UpdatePassword(uid, pw, gen, fail) =
                [password |-> password, err |-> ErrHashMethodNotFound]

\* C16 as stated: UpdatePassword with an unregistered configured method returns
\* ErrHashMethodNotFound and changes no password row, and VerifyPassword on a
\* row whose stored method is unregistered returns (false, ErrHashMethodNotFound).
C16_Original ==
    /\ HashMethod \notin HashFuncMap => UpdateRefused
    /\ \A r \in UnregisteredRows, pw \in Passwords :
           VerifyPassword(r.uid, pw, "none") =
               {[ok |-> FALSE, err |-> ErrHashMethodNotFound]}

\* C16 amended: UpdatePassword with an unregistered configured method (the salt
\* generated) returns ErrHashMethodNotFound and changes no password row, and
\* VerifyPassword on a row of a uid that is not empty whose stored method is
\* unregistered returns (false, ErrHashMethodNotFound); on a row of the empty
\* uid it returns (false, ErrUserNotFound).
C16_HashMethodNotFound ==
    /\ HashMethod \notin HashFuncMap => UpdateRefused
    /\ \A r \in UnregisteredRows, pw \in Passwords :
           VerifyPassword(r.uid, pw, "none") =
               {[ok |-> FALSE,
                 err |-> IF r.uid = "" THEN ErrUserNotFound
                         ELSE ErrHashMethodNotFound]}

\* a stored row has lost its method, and an update was refused for the same
\* reason
C16_Witness ==
    /\ last.op = "UpdatePassword" /\ last.err = ErrHashMethodNotFound
    /\ HashMethod \notin HashFuncMap
    /\ \E r \in UnregisteredRows : r.uid # ""

\* ---------------------------------------------------------------------------
\* Bulk lookups over tables filled by Bind, Unbind, Revoke and Ban
\* ---------------------------------------------------------------------------
NextLookup ==
    \/ CallBind
    \/ CallUnbind
    \/ CallRevoke
    \/ CallBan

InitLookup == New(AllModules) /\ observed = {}

SpecLookup == InitLookup /\ [][NextLookup]_vars

\* the uids a lookup is asked for
LookupUIDs == UIDs \cup UpsertUIDs

\* the uids of uids that have at least one row in tbl
WithRows(tbl, uids) == {u \in uids : \E r \in BagToSet(tbl) : r.uid = u}

\* C17: for every list of uids, the store answering, Accounts, Tokens and
\* Banned return a map whose key set is exactly the requested uids that have
\* at least one row in the respective table (so a requested uid without a row
\* is a missing key and an empty request yields an empty map), and Accounts
\* maps each key to all of that uid's (keyword, account) pairs.
C17_BulkLookups ==
    \A uids \in SUBSET LookupUIDs :
        /\ DOMAIN Accounts(uids) = WithRows(account, uids)
        /\ Tokens(uids) # {}
        /\ \A m \in Tokens(uids) : DOMAIN m = WithRows(token, uids)
        /\ Banned(uids) # {}
        /\ \A m \in Banned(uids) : DOMAIN m = WithRows(user, uids)
        /\ \A u \in DOMAIN Accounts(uids), k \in Keywords, a \in AccountNames :
               CopiesIn(Pair(k, a), Accounts(uids)[u]) =
                   CopiesIn(AccountRow(u, k, a), account)

\* a uid with two pairs and a uid without any are asked for together, and the
\* token and user tables hold rows of some but not all of the uids
C17_Witness ==
    \E u \in UIDs, v \in UIDs :
        /\ DOMAIN Accounts({u, v}) = {u}
        /\ BagCardinality(Accounts({u, v})[u]) = 2
        /\ \E m \in Tokens(LookupUIDs) : DOMAIN m # {} /\ DOMAIN m # LookupUIDs
        /\ \E m \in Banned(LookupUIDs) : DOMAIN m # {} /\ DOMAIN m # LookupUIDs

\* the account row r is the one Unbind(c.uid, (c.keyword, c.account)) names
Matches(r, c) == r.uid = c.uid /\ r.keyword = c.keyword /\ r.account = c.account

\* what a step of Unbind recorded as c does to the tables
UnbindStep(c) ==
    /\ \A r \in BagToSet(account) \cup BagToSet(account') :
           CopiesIn(r, account') =
               IF c.err = Nil /\ Matches(r, c) THEN 0 ELSE CopiesIn(r, account)
    /\ UNCHANGED <<user, password, token>>

\* Unbind of a triple no row matches, the store answering
UnbindOfNoRow ==
    \A uid \in UIDs, k \in Keywords, a \in AccountNames :
        CopiesIn(AccountRow(uid, k, a), account) = 0 =>
            Unbind(uid, k, a, "none") = [account |-> account, err |-> Nil]

\* C18: Unbind(uid, account) removes exactly the account rows matching all of
\* (uid, keyword, account) and leaves every other row of every table as it
\* was; when no row matches (the pair unbound or owned by another uid) it
\* returns no error and the store is unchanged.
C18_UnbindFrame ==
    [][UnbindOfNoRow /\ (last'.op = "Unbind" => UnbindStep(last'))]_vars

\* the owner unbinds a pair that an Unbind by another uid has left in place,
\* and the other pair of the table stays
C18_Witness ==
    /\ prev.op = "Unbind" /\ prev.err = Nil /\ prev.had = 1
    /\ last.op = "Unbind" /\ last.err = Nil /\ last.had = 1
    /\ prev.uid # last.uid
    /\ AccountRows(last.keyword, last.account) = 0
    /\ BagCardinality(account) > 0

\* the account names Find is asked for, the empty one included
FindAccounts == AccountNames \cup {""}

\* what Find returns when it finds nothing
NotFound == [row |-> AccountModel, err |-> ErrNoRows]

\* C19: Find(keyword, account) with an empty keyword or an empty account name
\* returns NotFound whatever the account table contains and whatever the store
\* does, and AccountToUID turns every NotFound (of an empty argument or of a
\* query without a row) into an empty uid with a nil error.
C19_EmptyIsNotFound ==
    \A k \in Keywords, a \in FindAccounts, fail \in FindFails :
        /\ (k = "" \/ a = "") =>
               /\ Find(k, a, fail) = {NotFound}
               /\ AccountToUID(k, a, fail) = {[uid |-> "", err |-> Nil]}
        /\ Find(k, a, fail) = {NotFound} =>
               AccountToUID(k, a, fail) = {[uid |-> "", err |-> Nil]}
        /\ \A o \in AccountToUID(k, a, fail) : o.err # ErrNoRows

\* the table holds a row of the empty keyword, which a query would find, and
\* no row of another pair, whose query finds nothing
C19_Witness ==
    \E k \in Keywords, a \in AccountNames :
        /\ AccountRows("", a) = 1
        /\ Find("", a, "none") = {NotFound}
        /\ k # "" /\ AccountRows(k, a) = 0
        /\ Find(k, a, "none") = {NotFound}
        /\ AccountToUID(k, a, "none") = {[uid |-> "", err |-> Nil]}

\* the two latest calls are successful updates of the password of one uid,
\* the second to another password
UpdatedTwice ==
    /\ prev.op = "UpdatePassword" /\ prev.err = Nil
    /\ last.op = "UpdatePassword" /\ last.err = Nil
    /\ prev.uid = last.uid /\ prev.arg # last.arg

\* one password row of uid, carrying the salt
OneRowWithSalt(uid, salt) ==
    /\ PasswordRows(uid) = 1
    /\ \A r \in BagToSet(password) : r.uid = uid => r.salt = salt

\* C20 as stated: after UpdatePassword(uid, p1) followed by
\* UpdatePassword(uid, p2) with p2 # p1 there is one password row for uid,
\* its salt is the one generated by the second call, VerifyPassword(uid, p2)
\* returns (true, nil) and VerifyPassword(uid, p1) returns (false, nil).
C20_Original ==
    UpdatedTwice =>
        /\ OneRowWithSalt(last.uid, last.out)
        /\ VerifyPassword(last.uid, last.arg, "none") = {[ok |-> TRUE, err |-> Nil]}
        /\ VerifyPassword(last.uid, prev.arg, "none") = {[ok |-> FALSE, err |-> Nil]}

\* C20 amended: after the two updates there is one password row for uid and
\* its salt is the one generated by the second call; for a uid that is not
\* empty VerifyPassword(uid, p2) returns (true, nil) and VerifyPassword(uid, p1)
\* returns (false, nil).
C20_UpdateReplaces ==
    UpdatedTwice =>
        /\ OneRowWithSalt(last.uid, last.out)
        /\ last.uid # "" =>
               /\ VerifyPassword(last.uid, last.arg, "none") = {[ok |-> TRUE, err |-> Nil]}
               /\ VerifyPassword(last.uid, prev.arg, "none") = {[ok |-> FALSE, err |-> Nil]}

\* the second update of a uid that is not empty drew another salt than the first
C20_Witness ==
    /\ UpdatedTwice /\ last.uid # ""
    /\ prev.out # last.out
    /\ OneRowWithSalt(last.uid, last.out)
    /\ VerifyPassword(last.uid, prev.arg, "none") = {[ok |-> FALSE, err |-> Nil]}

\* the calls that create account rows
CreatingOps == {"Bind", "Insert", "Register", "FindOrInsert"}

\* a step keeps every account row, but the rows an Unbind of their own uid,
\* keyword and account removes
RowsStay ==
    \A r \in BagToSet(account) :
        CopiesIn(r, account') < CopiesIn(r, account) =>
            last'.op = "Unbind" /\ Matches(r, last')

\* a creating call for a pair that is bound already leaves the account table
BoundPairStays ==
    (last'.op \in CreatingOps /\ last'.had > 0) => account' = account

\* C21: an account row is never updated: no step changes the uid, keyword or
\* account of a stored row, a Bind, Insert or FindOrInsert on a pair that is
\* bound already leaves the pair with its uid, and a row disappears only
\* through an Unbind by the uid that owns it.
C21_RowsNeverUpdated == [][RowsStay /\ BoundPairStays]_vars

\* an Insert by another uid was refused and the pair is still with its owner
C21_Witness ==
    /\ last.op = "Insert" /\ last.had = 1
    /\ last.err = ErrAccountRegisterExists
    /\ \E r \in BagToSet(account) :
           /\ r.keyword = last.keyword /\ r.account = last.account
           /\ r.uid # last.uid

\* the WithUser bit of a flag value
WithUserBit(flag) == (flag \div FlagWithUser) % 2 = 1

\* the calls that write the UserStatus row with the Account row
RegisteringOps == {"Insert", "Register", "FindOrInsert"}

\* a step of a registering call writes as many user rows as account rows when
\* the WithUser bit is set, and leaves the user table alone when it is not
UserRowGated ==
    last'.op \in RegisteringOps =>
        IF WithUserBit(Flag)
        THEN /\ Added(user', user) = Added(account', account)
             /\ Added(user, user') = 0 /\ Added(account, account') = 0
        ELSE user' = user

\* C22: the UserStatus row of Insert, Register and FindOrInsert is gated by
\* the WithUser flag and written together with the Account row: with the flag
\* set a call commits both rows or neither, with the flag not set (whatever
\* other flags are set) it never writes to the user table; Bind never writes
\* to the user table.
C22_UserRowGated ==
    [][UserRowGated /\ (last'.op = "Bind" => user' = user)]_vars

\* a FindOrInsert of a facade with all flags has committed both rows
C22_Witness ==
    /\ last.op = "FindOrInsert" /\ last.err = Nil
    /\ WithUserBit(Flag) /\ Flag # FlagWithUser
    /\ last.da = 1 /\ last.du = 1
    /\ CopiesIn(UserRow(last.out, UserStatusNormal), user) >= 1

\* ---------------------------------------------------------------------------
\* Concurrent FindOrInsert calls, statement by statement
\* ---------------------------------------------------------------------------
\* tx := a.DB().Begin()
FindOrInsertBegin ==
    \E p \in Procs, k \in Keywords, a \in AccountNames, fail \in BOOLEAN :
        /\ running[p].pc = "idle"
        /\ running' = [running EXCEPT ![p] =
              IF fail THEN Proc("FindOrInsert", "done", "", k, a, NoRow, ErrDB, "")
              ELSE Proc("FindOrInsert", "select", "", k, a, NoRow, Nil, "")]
        /\ UNCHANGED <<tables, config, web, observed, last, prev>>

\* Select.QueryRow(a.DB()) and ScanFrom(row): the lookup is run on the
\* database handle, not on tx; a row found ends the call with its uid
FindOrInsertSelect ==
    \E p \in Procs, fail \in BOOLEAN :
        LET c == running[p]
        IN /\ c.op = "FindOrInsert" /\ c.pc = "select"
           /\ IF fail THEN Done(p, ErrDB, "")
              ELSE \E s \in SelectAccount(c.keyword, c.account) :
                      IF s.err = Nil THEN Done(p, Nil, s.row.uid)
                      ELSE Goto(p, "insert")
           /\ UNCHANGED <<tables, config, web, observed, last, prev>>

\* uid, err := UIDGenerater() and Insert.Query().Exec(tx): the error of the
\* generator is overwritten by the result of the insert
FindOrInsertInsert ==
    \E p \in Procs, gen \in Generated(UIDs), fail \in BOOLEAN :
        LET c == running[p]
        IN /\ c.op = "FindOrInsert" /\ c.pc = "insert"
           /\ running' = [running EXCEPT ![p] =
                 IF fail THEN [c EXCEPT !.pc = "done", !.err = ErrDB, !.out = ""]
                 ELSE [c EXCEPT !.uid = gen.val,
                                !.row = AccountRow(gen.val, c.keyword, c.account),
                                !.pc = IF HasFlag(FlagWithUser) THEN "insertuser"
                                       ELSE "commit"]]
           /\ UNCHANGED <<tables, config, web, observed, last, prev>>

\* the insert of the UserStatus row in tx
FindOrInsertInsertUser ==
    \E p \in Procs, fail \in BOOLEAN :
        /\ running[p].op = "FindOrInsert" /\ running[p].pc = "insertuser"
        /\ IF fail THEN Done(p, ErrDB, "") ELSE Goto(p, "commit")
        /\ UNCHANGED <<tables, config, web, observed, last, prev>>

\* return uid, tx.Commit(): the rows of the transaction join the committed rows
FindOrInsertCommit ==
    \E p \in Procs, fail \in BOOLEAN :
        LET c == running[p]
        IN /\ c.op = "FindOrInsert" /\ c.pc = "commit"
           /\ IF fail THEN Done(p, ErrDB, c.uid) /\ UNCHANGED <<account, user>>
              ELSE /\ Done(p, Nil, c.uid)
                   /\ account' = InsertInto(account, c.row)
                   /\ user' = WithUserRow(user, c.uid)
           /\ UNCHANGED <<password, token, config, web, observed, last, prev>>

NextFindOrInsertRace ==
    \/ FindOrInsertBegin
    \/ FindOrInsertSelect
    \/ FindOrInsertInsert
    \/ FindOrInsertInsertUser
    \/ FindOrInsertCommit

InitFindOrInsertRace == New(AllModules) /\ observed = {}

SpecFindOrInsertRace == InitFindOrInsertRace /\ [][NextFindOrInsertRace]_vars

\* both calls have returned success
BothSucceeded(p, q) ==
    /\ running[p].pc = "done" /\ running[p].err = Nil
    /\ running[q].pc = "done" /\ running[q].err = Nil

\* C23 as stated: for two concurrent FindOrInsert calls with the same pair that
\* has no row yet, interleaved statement by statement, the calls that succeed
\* return the same uid, and at most one Account row and at most one UserStatus
\* row is committed for the pair.
C23_Original ==
    \A p \in Procs, q \in Procs :
        SamePair(p, q, "FindOrInsert") =>
            /\ BothSucceeded(p, q) => running[p].out = running[q].out
            /\ AccountRows(running[p].keyword, running[p].account) <= 1
            /\ BagCardinality(user) <= 1

\* the outcome of a uid generator that returns an error
FailedGenerator == [val |-> "", err |-> ErrGen]

\* C24 as stated: if the uid generator passed to FindOrInsert returns an error
\* for an account that has no row, FindOrInsert (the store answering) returns
\* that error and persists no Account row and no UserStatus row.
C24_Original ==
    \A k \in Keywords, a \in AccountNames :
        AccountRows(k, a) = 0 =>
            \A o \in FindOrInsert(FailedGenerator, k, a, "none") :
                /\ o.err = ErrGen
                /\ o.account = account
                /\ o.user = user

\* the uid a successful creating call recorded as c has stored for its pair
StoredUID(c) == IF c.op \in {"Bind", "Insert"} THEN c.uid ELSE c.out

\* Find and AccountToUID, the store answering, give the row (uid, keyword, acc)
Retrievable(uid, keyword, acc) ==
    /\ Find(keyword, acc, "none") = {[row |-> AccountRow(uid, keyword, acc), err |-> Nil]}
    /\ AccountToUID(keyword, acc, "none") = {[uid |-> uid, err |-> Nil]}

\* C25 as stated: every Account row committed by Bind, Insert, Register or
\* FindOrInsert is retrievable: for every uid, keyword and account accepted by
\* a successful call, a following Find(keyword, account) returns a row with
\* that uid and AccountToUID returns that uid, until the row is unbound.
C25_Original ==
    /\ (last.op \in CreatingOps /\ last.err = Nil) =>
           Retrievable(StoredUID(last), last.keyword, last.account)
    /\ \A r \in BagToSet(account) : Retrievable(r.uid, r.keyword, r.account)

\* C25 amended: the same for every keyword and account that are not empty: the
\* row of the pair of the latest successful call is retrievable, and so is
\* every row the account table holds.
C25_Retrievable ==
    /\ (last.op \in CreatingOps /\ last.err = Nil
            /\ last.keyword # "" /\ last.account # "") =>
           Retrievable(StoredUID(last), last.keyword, last.account)
    /\ \A r \in BagToSet(account) :
           (r.keyword # "" /\ r.account # "") =>
               Retrievable(r.uid, r.keyword, r.account)

\* the latest call committed a row of a keyword that is not empty, next to
\* the row of the empty keyword, and its row is retrievable
C25_Witness ==
    /\ last.op \in CreatingOps /\ last.err = Nil /\ last.da = 1
    /\ last.keyword # "" /\ last.account # ""
    /\ Retrievable(StoredUID(last), last.keyword, last.account)
    /\ BagCardinality(account) = 2

\* ---------------------------------------------------------------------------
\* The WeChat OAuth callback: logins and callbacks of one browser session
\* ---------------------------------------------------------------------------
NextWechat ==
    \/ ExternalLogin
    \/ AuthRequestCheck
    \/ AuthRequestDel
    \/ AuthRequestFetch

InitWechat == New(AllModules) /\ observed = {}

SpecWechat == InitWechat /\ [][NextWechat]_vars

\* the callback c carried a code and a non-empty state equal to the non-empty
\* state stored in the session
Matching(c) ==
    /\ c.code # "" /\ c.state # ""
    /\ c.stored # "" /\ c.stored = c.state

\* C26: authRequestWithAgent returns a non-nil result only when the request
\* carries a code and a non-empty state equal to the non-empty state stored in
\* the session; the stored state is deleted from the session before the user
\* info is fetched; and the same callback request, replayed after one that
\* returned a result, returns no result.
C26_CallbackOnce ==
    /\ request.result # NoResult => Matching(request)
    /\ request.pc = "fetch" => Matching(request) /\ session = SessionNotFound
    /\ (/\ Len(served) = 2
        /\ served[1].result # NoResult
        /\ served[2].code = served[1].code
        /\ served[2].state = served[1].state) => served[2].result = NoResult

\* a callback that returned a result was replayed and answered (nil, nil)
C26_Witness ==
    /\ Len(served) = 2
    /\ served[1].result # NoResult
    /\ served[2].code = served[1].code /\ served[2].state = served[1].state
    /\ served[2].result = NoResult /\ served[2].err = Nil
    /\ session = SessionNotFound

====
